---- MODULE Spec2Model ----
(***************************************************************************)
(* The adaptive signal engine of app/app.py, the Streamlit script that     *)
(* ci_build.py writes out (src/ci_build.py lines 36-189).  One run of the  *)
(* script is a straight line: read the CSV, pick the indicator windows,    *)
(* compute the indicator columns, classify the latest values, draw the     *)
(* figure, write the narrative.  Streamlit runs the script again from the  *)
(* top whenever a sidebar checkbox changes.                                *)
(*                                                                         *)
(* Numbers are exact rationals <<num, den>> in lowest terms with den > 0;  *)
(* <<0, 0>> is NaN.  A standard deviation v is carried as its square v*v   *)
(* (the square root of a rational is not a rational) and is compared with  *)
(* a threshold t through v*v < t*t, which is the same as v < t because     *)
(* both are non-negative.                                                  *)
(***************************************************************************)
EXTENDS Integers, Sequences, FiniteSets, TLC

VARIABLES csv, show_sma, show_ema, show_rsi, show_volume,
          pc, error, df, data_len,
          sma_short, sma_long, ema_win, rsi_win, vol_win, mode,
          latest_vol, vol_regime, fig, trend_bias, rsi_val, narrative, prev

vars == <<csv, show_sma, show_ema, show_rsi, show_volume,
          pc, error, df, data_len,
          sma_short, sma_long, ema_win, rsi_win, vol_win, mode,
          latest_vol, vol_regime, fig, trend_bias, rsi_val, narrative, prev>>

(* ---------------- bounds ---------------- *)
MaxLen == 4
MaxBars == 101

(* ---------------- exact rational arithmetic ---------------- *)
Abs(x) == IF x < 0 THEN -x ELSE x

Max(a, b) == IF a > b THEN a ELSE b

RECURSIVE GCD(_, _)
GCD(a, b) == IF b = 0 THEN a ELSE GCD(b, a % b)

LCM(a, b) == (a \div GCD(a, b)) * b

NaN == <<0, 0>>

IsNaN(x) == x[2] = 0

Rat(n, d) ==
    LET g == GCD(Abs(n), Abs(d))
    IN  IF d < 0 THEN <<(-n) \div g, (-d) \div g>> ELSE <<n \div g, d \div g>>

Whole(n) == <<n, 1>>

RAdd(a, b) ==
    IF IsNaN(a) \/ IsNaN(b) THEN NaN
    ELSE LET l == LCM(a[2], b[2])
         IN  Rat(a[1] * (l \div a[2]) + b[1] * (l \div b[2]), l)

RNeg(a) == IF IsNaN(a) THEN NaN ELSE <<-a[1], a[2]>>

RSub(a, b) == RAdd(a, RNeg(b))

RMul(a, b) ==
    IF IsNaN(a) \/ IsNaN(b) THEN NaN
    ELSE LET x == Rat(a[1], b[2])
             y == Rat(b[1], a[2])
         IN  <<x[1] * y[1], x[2] * y[2]>>

RDiv(a, b) ==
    IF IsNaN(a) \/ IsNaN(b) \/ b[1] = 0 THEN NaN
    ELSE RMul(a, Rat(b[2], b[1]))

(* IEEE comparison: any comparison with NaN is false *)
Less(a, b) ==
    /\ ~IsNaN(a)
    /\ ~IsNaN(b)
    /\ LET g == GCD(a[2], b[2])
       IN  a[1] * (b[2] \div g) < b[1] * (a[2] \div g)

LessEq(a, b) == ~IsNaN(a) /\ ~IsNaN(b) /\ ~Less(b, a)

Greater(a, b) == Less(b, a)

Sq(a) == RMul(a, a)

(* v < t for a standard deviation v carried as its square *)
StdLess(v2, t) == Less(v2, Sq(t))

(* ---------------- pandas / ta column operations ---------------- *)
Last(s) == s[Len(s)]

ToReal(s) == [i \in 1..Len(s) |-> Whole(s[i])]

(* the sum of the cells lo..hi, by halves *)
RECURSIVE RSum(_, _, _)
RSum(x, lo, hi) ==
    IF lo > hi THEN Whole(0)
    ELSE IF lo = hi THEN x[lo]
    ELSE LET mid == (lo + hi) \div 2
         IN  RAdd(RSum(x, lo, mid), RSum(x, mid + 1, hi))

(* the count and the sums pandas keeps of the non-NaN cells of a window *)
RECURSIVE NobsIn(_, _, _)
NobsIn(x, lo, hi) ==
    IF lo > hi THEN 0
    ELSE IF lo = hi THEN (IF IsNaN(x[lo]) THEN 0 ELSE 1)
    ELSE LET mid == (lo + hi) \div 2
         IN  NobsIn(x, lo, mid) + NobsIn(x, mid + 1, hi)

SumIn(x, lo, hi) ==
    RSum([i \in 1..Len(x) |-> IF IsNaN(x[i]) THEN Whole(0) ELSE x[i]], lo, hi)

SumSqIn(x, lo, hi) ==
    RSum([i \in 1..Len(x) |-> IF IsNaN(x[i]) THEN Whole(0) ELSE Sq(x[i])], lo, hi)

(* the rolling mean without fillna: no value before a full window *)
RollingMeanNoFill(x, window) ==
    [i \in 1..Len(x) |->
        IF i < window THEN NaN
        ELSE RDiv(RSum(x, i - window + 1, i), Whole(window))]

(* Series.rolling(window, min_periods=0).mean(), what ta's sma_indicator
   computes with fillna=True: the mean of the cells at hand *)
RollingMean(x, window) ==
    [i \in 1..Len(x) |->
        LET lo == Max(1, i - window + 1)
        IN  RDiv(RSum(x, lo, i), Whole(i - lo + 1))]

sma_indicator(close, window) == RollingMean(ToReal(close), window)

(* Series.ewm(alpha=alpha, min_periods=0, adjust=False).mean(): the first
   cell is x[1], each later cell is (1 - alpha) * the cell before it plus
   alpha * x.  EwmCells gives the cells lo..hi from the cell y0 before them,
   the first half and then, from its last cell, the second. *)
RECURSIVE EwmCells(_, _, _, _, _)
EwmCells(x, alpha, y0, lo, hi) ==
    IF lo > hi THEN <<>>
    ELSE IF lo = hi
    THEN IF lo = 1 THEN <<x[1]>>
         ELSE <<RAdd(RMul(RSub(Whole(1), alpha), y0), RMul(alpha, x[lo]))>>
    ELSE LET mid == (lo + hi) \div 2
             head == EwmCells(x, alpha, y0, lo, mid)
         IN  head \o EwmCells(x, alpha, head[Len(head)], mid + 1, hi)

Ewm(x, alpha) == EwmCells(x, alpha, NaN, 1, Len(x))

(* ta.trend.ema_indicator: ewm(span=window), alpha = 2 / (window + 1) *)
ema_indicator(close, window) ==
    Ewm(ToReal(close), Rat(2, window + 1))

(* Series.diff(1) *)
Diff(x) == [i \in 1..Len(x) |-> IF i = 1 THEN NaN ELSE RSub(x[i], x[i - 1])]

(* ta.momentum.rsi with fillna=True *)
rsi(close, window) ==
    LET diff == Diff(ToReal(close))
        up_direction == [i \in 1..Len(close) |->
                           IF Greater(diff[i], Whole(0)) THEN diff[i] ELSE Whole(0)]
        down_direction == [i \in 1..Len(close) |->
                           RNeg(IF Less(diff[i], Whole(0)) THEN diff[i] ELSE Whole(0))]
        emaup == Ewm(up_direction, Rat(1, window))
        emadn == Ewm(down_direction, Rat(1, window))
        raw == [i \in 1..Len(close) |->
                  IF emadn[i] = Whole(0) THEN Whole(100)
                  ELSE RSub(Whole(100),
                            RDiv(Whole(100), RAdd(Whole(1), RDiv(emaup[i], emadn[i]))))]
    IN  [i \in 1..Len(close) |-> IF IsNaN(raw[i]) THEN Whole(50) ELSE raw[i]]

(* Series.pct_change() *)
pct_change(close) ==
    [i \in 1..Len(close) |->
        IF i = 1 THEN NaN ELSE Rat(close[i] - close[i - 1], close[i - 1])]

(* Series.rolling(window, min_periods).std(): the sample standard deviation
   (ddof = 1) of the non-NaN cells of the window, NaN when there are fewer
   than min_periods of them or fewer than two.  The result is the square. *)
RollingStd(x, window, min_periods) ==
    [i \in 1..Len(x) |->
        LET lo == Max(1, i - window + 1)
            nobs == NobsIn(x, lo, i)
            s1 == SumIn(x, lo, i)
            s2 == SumSqIn(x, lo, i)
        IN  IF nobs < min_periods \/ nobs <= 1 THEN NaN
            ELSE RDiv(RSub(s2, RDiv(Sq(s1), Whole(nobs))), Whole(nobs - 1))]

(* ---------------- the input file ---------------- *)
Closes == {100, 101}

(* data/sample_data.csv, the Close column.  Its returns have denominators
   too wide for exact 32-bit arithmetic, so the file enters the properties
   through its number of rows; series of as many rows are among the inputs. *)
SampleClose == <<42300, 42850, 42600, 42100>>

(* every series of at most MaxLen bars over Closes *)
ShortSeries == UNION {[1..n -> Closes] : n \in 0..MaxLen}

(* series whose latest values sit on or beside a threshold:
   volatility 0.01, volatility 0.025, a volatility above 0.025,
   RSI 70, RSI 30, a rising series, a late rise, and a series that moves
   and ends with its EMA on its short SMA *)
EdgeSeries ==
    { <<5000, 5000, 5050, 5151>>, <<1600, 1600, 1640, 1722>>, <<100, 110, 100>>,
      <<100, 107, 105>>, <<100, 109, 95>>, <<100, 104, 108>>, <<100, 100, 104>>,
      <<100, 102, 101>> }

(* longer histories, up to MaxBars bars, with an unchanged close *)
LongSeries == {[i \in 1..n |-> 100] : n \in (MaxLen + 1)..MaxBars}

(* what can be wrong with a row of the file *)
Defects == {"bad_date", "non_ascending_date", "non_numeric_close", "non_numeric_volume"}

Inputs ==
    {[Close |-> c, defect |-> "none"] : c \in ShortSeries \cup EdgeSeries \cup LongSeries}
    \cup {[Close |-> c, defect |-> d] :
             c \in {x \in ShortSeries : Len(x) >= 2}, d \in Defects}

(* ---------------- the script ---------------- *)
NoColumn == <<>>

NoFrame == [Close |-> NoColumn, SMA_short |-> NoColumn, SMA_long |-> NoColumn,
            EMA |-> NoColumn, RSI |-> NoColumn, Returns |-> NoColumn,
            Volatility |-> NoColumn]

NoFigure == [rows |-> 0, traces |-> {}]

NoNarrative == [volatility |-> "unset", momentum |-> "unset"]

(* the script's variables before the script has assigned them *)
Unassigned ==
    /\ error = "none"
    /\ df = NoFrame
    /\ data_len = 0
    /\ sma_short = 0 /\ sma_long = 0 /\ ema_win = 0 /\ rsi_win = 0 /\ vol_win = 0
    /\ mode = "unset"
    /\ latest_vol = NaN
    /\ vol_regime = "unset"
    /\ fig = NoFigure
    /\ trend_bias = "unset"
    /\ rsi_val = NaN
    /\ narrative = NoNarrative

Init ==
    /\ csv \in Inputs
    /\ show_sma = TRUE /\ show_ema = TRUE /\ show_rsi = TRUE /\ show_volume = TRUE
    /\ pc = "load"
    /\ prev = {}
    /\ Unassigned

toggles == <<show_sma, show_ema, show_rsi, show_volume>>

script == <<error, df, data_len, sma_short, sma_long, ema_win, rsi_win, vol_win, mode,
            latest_vol, vol_regime, fig, trend_bias, rsi_val, narrative>>

Raise(name) == /\ error' = name
               /\ pc' = "error"

(* LOAD DATA: read_csv keeps every row; to_datetime raises on a date it
   cannot parse and checks nothing else *)
LoadData ==
    /\ pc = "load"
    /\ IF csv.defect = "bad_date"
       THEN /\ Raise("ValueError")
            /\ UNCHANGED <<df, data_len>>
       ELSE /\ df' = [df EXCEPT !.Close = csv.Close]
            /\ data_len' = Len(csv.Close)
            /\ pc' = "windows"
            /\ UNCHANGED error
    /\ UNCHANGED <<csv, toggles, prev, sma_short, sma_long, ema_win, rsi_win, vol_win,
                   mode, latest_vol, vol_regime, fig, trend_bias, rsi_val, narrative>>

(* the first threshold read as "more than 100 bars" *)
AdaptiveWindowsAbove100(n) ==
    IF n > 100
    THEN [sma_short |-> 20, sma_long |-> 50, ema_win |-> 20, rsi_win |-> 14,
          vol_win |-> 20, mode |-> "Production"]
    ELSE IF n >= 60
    THEN [sma_short |-> 14, sma_long |-> 30, ema_win |-> 14, rsi_win |-> 10,
          vol_win |-> 14, mode |-> "Reduced History"]
    ELSE [sma_short |-> 3, sma_long |-> 5, ema_win |-> 3, rsi_win |-> 3,
          vol_win |-> 3, mode |-> "Demo"]

(* the second threshold set at 20 bars, below the long window it selects *)
AdaptiveWindowsFrom20(n) ==
    IF n >= 100
    THEN [sma_short |-> 20, sma_long |-> 50, ema_win |-> 20, rsi_win |-> 14,
          vol_win |-> 20, mode |-> "Production"]
    ELSE IF n >= 20
    THEN [sma_short |-> 14, sma_long |-> 30, ema_win |-> 14, rsi_win |-> 10,
          vol_win |-> 14, mode |-> "Reduced History"]
    ELSE [sma_short |-> 3, sma_long |-> 5, ema_win |-> 3, rsi_win |-> 3,
          vol_win |-> 3, mode |-> "Demo"]

(* ADAPTIVE INDICATOR WINDOWS *)
AdaptiveWindows(n) ==
    IF n >= 100
    THEN [sma_short |-> 20, sma_long |-> 50, ema_win |-> 20, rsi_win |-> 14,
          vol_win |-> 20, mode |-> "Production"]
    ELSE IF n >= 60
    THEN [sma_short |-> 14, sma_long |-> 30, ema_win |-> 14, rsi_win |-> 10,
          vol_win |-> 14, mode |-> "Reduced History"]
    ELSE [sma_short |-> 3, sma_long |-> 5, ema_win |-> 3, rsi_win |-> 3,
          vol_win |-> 3, mode |-> "Demo"]

SelectWindows ==
    /\ pc = "windows"
    /\ LET w == AdaptiveWindows(data_len)
       IN  /\ sma_short' = w.sma_short
           /\ sma_long' = w.sma_long
           /\ ema_win' = w.ema_win
           /\ rsi_win' = w.rsi_win
           /\ vol_win' = w.vol_win
           /\ mode' = w.mode
    /\ pc' = "indicators"
    /\ UNCHANGED <<csv, toggles, prev, error, df, data_len, latest_vol, vol_regime, fig,
                   trend_bias, rsi_val, narrative>>

(* the columns computed only for the indicators whose checkbox is ticked *)
IndicatorsShown(close) ==
    LET returns == pct_change(close)
    IN  [Close |-> close,
         SMA_short |-> IF show_sma THEN sma_indicator(close, sma_short) ELSE NoColumn,
         SMA_long |-> IF show_sma THEN sma_indicator(close, sma_long) ELSE NoColumn,
         EMA |-> IF show_ema THEN ema_indicator(close, ema_win) ELSE NoColumn,
         RSI |-> IF show_rsi THEN rsi(close, rsi_win) ELSE NoColumn,
         Returns |-> returns,
         Volatility |-> RollingStd(returns, vol_win, 1)]

(* INDICATORS: the six derived columns *)
Indicators(close) ==
    LET returns == pct_change(close)
    IN  [Close |-> close,
         SMA_short |-> sma_indicator(close, sma_short),
         SMA_long |-> sma_indicator(close, sma_long),
         EMA |-> ema_indicator(close, ema_win),
         RSI |-> rsi(close, rsi_win),
         Returns |-> returns,
         Volatility |-> RollingStd(returns, vol_win, 1)]

(* a Close column that holds text is of dtype object, and the first rolling
   mean over it raises *)
ComputeIndicators ==
    /\ pc = "indicators"
    /\ IF csv.defect = "non_numeric_close"
       THEN /\ Raise("DataError")
            /\ UNCHANGED df
       ELSE /\ df' = Indicators(df.Close)
            /\ pc' = "regime"
            /\ UNCHANGED error
    /\ UNCHANGED <<csv, toggles, prev, data_len, sma_short, sma_long, ema_win, rsi_win,
                   vol_win, mode, latest_vol, vol_regime, fig, trend_bias, rsi_val,
                   narrative>>

(* the thresholds taken as inclusive upper bounds *)
VolRegimeInclusive(v) ==
    IF LessEq(v, Sq(Rat(1, 100))) THEN "Low"
    ELSE IF LessEq(v, Sq(Rat(25, 1000))) THEN "Medium"
    ELSE "High"

(* the comparisons turned round: "not at least 0.01" is true of NaN *)
VolRegimeNegated(v) ==
    IF ~LessEq(Sq(Rat(1, 100)), v) THEN "Low"
    ELSE IF ~LessEq(Sq(Rat(25, 1000)), v) THEN "Medium"
    ELSE "High"

(* VOLATILITY REGIME *)
VolRegime(v) ==
    IF StdLess(v, Rat(1, 100)) THEN "Low"
    ELSE IF StdLess(v, Rat(25, 1000)) THEN "Medium"
    ELSE "High"

(* an empty column read as "no value" instead of raising *)
VolatilityRegimeDefault ==
    /\ pc = "regime"
    /\ latest_vol' = IF Len(df.Volatility) = 0 THEN NaN ELSE Last(df.Volatility)
    /\ vol_regime' = IF Len(df.Volatility) = 0 THEN "High"
                     ELSE VolRegime(Last(df.Volatility))
    /\ pc' = "figure"
    /\ UNCHANGED <<csv, toggles, prev, error, df, data_len, sma_short, sma_long, ema_win,
                   rsi_win, vol_win, mode, fig, trend_bias, rsi_val, narrative>>

VolatilityRegime ==
    /\ pc = "regime"
    /\ IF Len(df.Volatility) = 0
       THEN /\ Raise("IndexError")
            /\ UNCHANGED <<latest_vol, vol_regime>>
       ELSE /\ latest_vol' = Last(df.Volatility)
            /\ vol_regime' = VolRegime(Last(df.Volatility))
            /\ pc' = "figure"
            /\ UNCHANGED error
    /\ UNCHANGED <<csv, toggles, prev, df, data_len, sma_short, sma_long, ema_win,
                   rsi_win, vol_win, mode, fig, trend_bias, rsi_val, narrative>>

(* FIGURE SETUP .. RSI PANEL: which traces are drawn *)
Traces ==
    {"Price"}
    \cup (IF show_volume THEN {"Volume"} ELSE {})
    \cup (IF show_sma THEN {"SMA_short", "SMA_long"} ELSE {})
    \cup (IF show_ema THEN {"EMA"} ELSE {})
    \cup (IF show_rsi THEN {"RSI", "hline 70", "hline 30"} ELSE {})

Figure ==
    /\ pc = "figure"
    /\ fig' = [rows |-> IF show_rsi THEN 2 ELSE 1, traces |-> Traces]
    /\ pc' = "narrative"
    /\ UNCHANGED <<csv, toggles, prev, error, df, data_len, sma_short, sma_long, ema_win,
                   rsi_win, vol_win, mode, latest_vol, vol_regime, trend_bias, rsi_val,
                   narrative>>

(* the tie counted as Bullish *)
TrendBiasInclusive(ema, sma) == IF LessEq(sma, ema) THEN "Bullish" ELSE "Bearish"

(* AI NARRATIVE *)
TrendBias(ema, sma) == IF Greater(ema, sma) THEN "Bullish" ELSE "Bearish"

VolatilityPhrase(regime) ==
    IF regime = "Low" THEN "stable conditions with controlled risk"
    ELSE IF regime = "High" THEN "heightened uncertainty requiring caution"
    ELSE "moderate risk with selective opportunities"

(* the bounds 70 and 30 counted in *)
MomentumPhraseInclusive(r) ==
    IF LessEq(Whole(70), r) THEN "overbought conditions"
    ELSE IF LessEq(r, Whole(30)) THEN "oversold conditions"
    ELSE "balanced participation"

MomentumPhrase(r) ==
    IF Greater(r, Whole(70)) THEN "overbought conditions"
    ELSE IF Less(r, Whole(30)) THEN "oversold conditions"
    ELSE "balanced participation"

Narrative ==
    /\ pc = "narrative"
    /\ IF Len(df.EMA) = 0 \/ Len(df.SMA_short) = 0 \/ Len(df.RSI) = 0
       THEN /\ Raise("IndexError")
            /\ UNCHANGED <<trend_bias, rsi_val, narrative>>
       ELSE /\ trend_bias' = TrendBias(Last(df.EMA), Last(df.SMA_short))
            /\ rsi_val' = Last(df.RSI)
            /\ narrative' = [volatility |-> VolatilityPhrase(vol_regime),
                             momentum |-> MomentumPhrase(Last(df.RSI))]
            /\ pc' = "done"
            /\ UNCHANGED error
    /\ UNCHANGED <<csv, toggles, prev, df, data_len, sma_short, sma_long, ema_win,
                   rsi_win, vol_win, mode, latest_vol, vol_regime, fig>>

(* what a run has computed, the figure aside *)
Outcome ==
    [error |-> error, df |-> df, data_len |-> data_len,
     windows |-> <<sma_short, sma_long, ema_win, rsi_win, vol_win>>, mode |-> mode,
     latest_vol |-> latest_vol, vol_regime |-> vol_regime, trend_bias |-> trend_bias,
     rsi_val |-> rsi_val, narrative |-> narrative]

(* SIDEBAR: a checkbox is clicked after the script has ended, and Streamlit
   runs the script again from the top over the same file.  prev keeps the
   outcome of the run that has just ended. *)
Rerun ==
    /\ pc \in {"done", "error"}
    /\ \E box \in 1..4 :
          /\ show_sma' = IF box = 1 THEN ~show_sma ELSE show_sma
          /\ show_ema' = IF box = 2 THEN ~show_ema ELSE show_ema
          /\ show_rsi' = IF box = 3 THEN ~show_rsi ELSE show_rsi
          /\ show_volume' = IF box = 4 THEN ~show_volume ELSE show_volume
    /\ prev' = {Outcome}
    /\ pc' = "load"
    /\ error' = "none"
    /\ df' = NoFrame
    /\ data_len' = 0
    /\ sma_short' = 0 /\ sma_long' = 0 /\ ema_win' = 0 /\ rsi_win' = 0 /\ vol_win' = 0
    /\ mode' = "unset"
    /\ latest_vol' = NaN
    /\ vol_regime' = "unset"
    /\ fig' = NoFigure
    /\ trend_bias' = "unset"
    /\ rsi_val' = NaN
    /\ narrative' = NoNarrative
    /\ UNCHANGED csv

Next ==
    \/ LoadData
    \/ SelectWindows
    \/ ComputeIndicators
    \/ VolatilityRegime
    \/ Figure
    \/ Narrative
    \/ Rerun

Spec == Init /\ [][Next]_vars

(* ---------------- properties ---------------- *)
WindowsChosen == mode # "unset"

Windows == <<sma_short, sma_long, ema_win, rsi_win, vol_win>>

(* the indicator columns have been computed *)
Computed == pc \in {"regime", "figure", "narrative", "done"}

Classified == vol_regime # "unset"

Narrated == pc = "done"

Defined(col) == \A i \in 1..Len(col) : ~IsNaN(col[i])

(* C1: once the windows are chosen they are the preset of the first matching
   row of the table: 100 bars or more give 20/50/20/14/20 and Production,
   60 to 99 bars give 14/30/14/10/14 and Reduced History, fewer than 60 give
   3/5/3/3/3 and Demo; a file as long as the sample file gets Demo, and some
   preset is chosen whatever the bar count. *)
C1_PresetByBarCount ==
    WindowsChosen =>
        /\ data_len >= 100 => Windows = <<20, 50, 20, 14, 20>> /\ mode = "Production"
        /\ (data_len >= 60 /\ data_len < 100) =>
              Windows = <<14, 30, 14, 10, 14>> /\ mode = "Reduced History"
        /\ data_len < 60 => Windows = <<3, 5, 3, 3, 3>> /\ mode = "Demo"
        /\ data_len = Len(SampleClose) => mode = "Demo"
        /\ mode \in {"Production", "Reduced History", "Demo"}

C1_Witness == pc = "indicators" /\ data_len = 100 /\ mode = "Production"

(* C2 as stated: with at least one bar, no chosen window is larger than the
   number of bars. *)
C2_WindowsWithinBars ==
    (WindowsChosen /\ data_len >= 1 /\ csv.defect = "none") =>
        \A i \in 1..5 : Windows[i] <= data_len

(* C2 amended: with five bars or more no chosen window is larger than the
   number of bars; with one to four bars the Demo preset is chosen all the
   same, its long window of 5 is larger than the number of bars, and the
   run goes on to compute the indicators. *)
C2_WindowsWithinBarsFromFive ==
    WindowsChosen =>
        /\ data_len >= 5 => \A i \in 1..5 : Windows[i] <= data_len
        /\ (data_len >= 1 /\ data_len < 5) =>
              Windows = <<3, 5, 3, 3, 3>> /\ sma_long > data_len

C2_Witness == Computed /\ data_len = 5 /\ sma_long = 5

(* C3 as stated: with at least one bar the five indicator columns have one
   entry per bar, the averages and the momentum are defined everywhere, and
   the volatility is defined at every index but the first. *)
C3_DefinedFromSecondBar ==
    (Computed /\ data_len >= 1 /\ csv.defect = "none") =>
        /\ \A c \in {"SMA_short", "SMA_long", "EMA", "RSI", "Volatility"} :
              Len(df[c]) = data_len
        /\ Defined(df.SMA_short) /\ Defined(df.SMA_long)
        /\ Defined(df.EMA) /\ Defined(df.RSI)
        /\ IsNaN(df.Returns[1]) /\ IsNaN(df.Volatility[1])
        /\ \A i \in 2..data_len : ~IsNaN(df.Volatility[i])

(* C3 amended: as above, but the volatility is undefined at the first two
   indices and defined from the third on: the sample standard deviation of
   a single return is not a number. *)
C3_DefinedFromThirdBar ==
    (Computed /\ data_len >= 1) =>
        /\ \A c \in {"SMA_short", "SMA_long", "EMA", "RSI", "Volatility"} :
              Len(df[c]) = data_len
        /\ Defined(df.SMA_short) /\ Defined(df.SMA_long)
        /\ Defined(df.EMA) /\ Defined(df.RSI)
        /\ IsNaN(df.Returns[1]) /\ IsNaN(df.Volatility[1])
        /\ \A i \in 2..data_len : ~IsNaN(df.Returns[i])
        /\ data_len >= 2 => IsNaN(df.Volatility[2])
        /\ \A i \in 3..data_len : ~IsNaN(df.Volatility[i])

C3_Witness ==
    /\ Computed
    /\ data_len = 4
    /\ IsNaN(df.Volatility[2])
    /\ ~IsNaN(df.Volatility[3])
    /\ df.SMA_long[4] # df.SMA_short[4]

(* C4: the regime follows the latest volatility v alone: below 0.01 Low,
   from 0.01 up to but not 0.025 Medium, from 0.025 on High; v = 0.01 is
   Medium and v = 0.025 is High, and one of the three is always produced.
   (latest_vol holds v * v.) *)
C4_RegimeByThreshold ==
    Classified =>
        /\ vol_regime \in {"Low", "Medium", "High"}
        /\ Less(latest_vol, Rat(1, 10000)) => vol_regime = "Low"
        /\ (~IsNaN(latest_vol) /\ ~Less(latest_vol, Rat(1, 10000))
               /\ Less(latest_vol, Rat(1, 1600))) => vol_regime = "Medium"
        /\ (~IsNaN(latest_vol) /\ ~Less(latest_vol, Rat(1, 1600))) =>
              vol_regime = "High"
        /\ latest_vol = Rat(1, 10000) => vol_regime = "Medium"
        /\ latest_vol = Rat(1, 1600) => vol_regime = "High"

C4_Witness == Classified /\ latest_vol = Rat(1, 10000) /\ vol_regime = "Medium"

(* C5: the momentum phrase of the narrative follows the latest RSI m alone:
   above 70 overbought, below 30 oversold, anything else, 30 and 70
   themselves included, balanced. *)
C5_MomentumByOpenInterval ==
    Narrated =>
        /\ Greater(rsi_val, Whole(70)) <=> narrative.momentum = "overbought conditions"
        /\ Less(rsi_val, Whole(30)) <=> narrative.momentum = "oversold conditions"
        /\ (~Greater(rsi_val, Whole(70)) /\ ~Less(rsi_val, Whole(30))) <=>
              narrative.momentum = "balanced participation"
        /\ rsi_val \in {Whole(30), Whole(70)} =>
              narrative.momentum = "balanced participation"

C5_Witness ==
    Narrated /\ rsi_val = Whole(70) /\ narrative.momentum = "balanced participation"

(* C6: the trend bias is Bullish exactly when the latest EMA is strictly
   above the latest short SMA, Bearish otherwise, so Bearish when they are
   equal. *)
C6_BullishIffStrictlyAbove ==
    Narrated =>
        /\ trend_bias = "Bullish" <=> Greater(Last(df.EMA), Last(df.SMA_short))
        /\ trend_bias \in {"Bullish", "Bearish"}
        /\ Last(df.EMA) = Last(df.SMA_short) => trend_bias = "Bearish"

C6_Witness ==
    /\ Narrated
    /\ data_len >= 3
    /\ df.Close[1] # df.Close[data_len]
    /\ Last(df.EMA) = Last(df.SMA_short)
    /\ trend_bias = "Bearish"

(* C7: a run that follows a run over the same file with other checkboxes
   ends with the same columns, windows, regime, bias, momentum value and
   phrases (or the same failure); the checkboxes decide the traces of the
   figure and nothing else. *)
C7_TogglesOnlyChangeTraces ==
    /\ (pc \in {"done", "error"} /\ prev # {}) => prev = {Outcome}
    /\ pc \in {"narrative", "done"} =>
          /\ "Price" \in fig.traces
          /\ show_sma <=> {"SMA_short", "SMA_long"} \subseteq fig.traces
          /\ show_ema <=> "EMA" \in fig.traces
          /\ show_rsi <=> "RSI" \in fig.traces
          /\ show_volume <=> "Volume" \in fig.traces

C7_Witness ==
    /\ Narrated
    /\ prev = {Outcome}
    /\ ~show_sma /\ ~show_rsi /\ show_ema
    /\ fig.traces = {"Price", "Volume", "EMA"}
    /\ data_len >= 3

(* C8: a run fails on a missing last element exactly when the file has no
   rows: the indicator columns of an empty file are computed, and are
   empty, the failure comes with the first read of a last element, and a
   well-formed file with a row or more is classified without a failure. *)
C8_IndexErrorIffEmpty ==
    /\ error = "IndexError" <=> (pc = "error" /\ Len(csv.Close) = 0)
    /\ error = "IndexError" =>
          /\ df.Volatility = NoColumn /\ df.EMA = NoColumn /\ df.RSI = NoColumn
          /\ vol_regime = "unset"
    /\ (Len(csv.Close) = 0 /\ pc = "regime") => error = "none" /\ df = NoFrame
    /\ Len(csv.Close) = 0 => pc \notin {"figure", "narrative", "done"}
    /\ (Len(csv.Close) >= 1 /\ csv.defect = "none") => error = "none"

C8_Witness == error = "IndexError" /\ data_len = 0 /\ mode = "Demo"

(* C9: a file with a row that is not a valid bar gets no indicator column,
   no classification and no narrative: the run has failed before the
   indicators are computed. *)
C9_MalformedInputRejected ==
    csv.defect # "none" =>
        /\ ~Computed
        /\ df.SMA_short = NoColumn
        /\ vol_regime = "unset"
        /\ narrative = NoNarrative

(* C10: a latest volatility that is not a number, as it is with a single
   bar, fails both comparisons, and the run reports High and goes on to
   the narrative without a failure. *)
C10_NaNVolatilityIsHigh ==
    /\ (Classified /\ IsNaN(latest_vol)) => vol_regime = "High" /\ error = "none"
    /\ (Classified /\ data_len = 1) => IsNaN(latest_vol)
    /\ (Narrated /\ IsNaN(latest_vol)) =>
          narrative.volatility = "heightened uncertainty requiring caution"
    /\ (data_len = 1 /\ csv.defect = "none") => error = "none"

C10_Witness ==
    /\ Narrated
    /\ data_len = 1
    /\ IsNaN(latest_vol)
    /\ vol_regime = "High"

====
